---- MODULE Spec2Model ----
(***************************************************************************)
(* Model of the Meteor Showers plug-in's MeteorShower object               *)
(* (plugins/MeteorShowers/src/MeteorShower.cpp): construction from a       *)
(* catalog record, activity resolution, the rate model and the per-frame   *)
(* update.                                                                 *)
(*                                                                         *)
(* Representation                                                          *)
(*  - a QDate is its Julian day number, as in Qt 5; the null/invalid date  *)
(*    is NullJd, which compares below every valid date;                    *)
(*  - simulated time (core->getJD()) is counted in 1/TimeScale days;       *)
(*  - the current radiant is kept in 1/(TimeScale*DriftInterval) of the    *)
(*    catalog's angle unit, so that drift/5 * daysToPeak is exact;         *)
(*  - a MeteorObj* is a small integer identity.                            *)
(***************************************************************************)
EXTENDS Integers, Sequences, FiniteSets, TLC

\* ------------------------------------------------------------------------
\* Program constants
\* ------------------------------------------------------------------------
genericYear == 1000
DriftInterval == 5
SecondsPerHour == 3600
FullIntensity == 100
VariableZHR == 0 - 1

\* ------------------------------------------------------------------------
\* Bounds of the model
\* ------------------------------------------------------------------------
TimeScale == 2
ExpScale == 1000
MaxMeteors == 2
\* the MeteorObj created in a run of the specification Spec
TickMeteors == 1

\* stand-in for QDate's null Julian day (the minimum 64-bit integer)
NullJd == 0 - 100000000
\* the result of converting a NaN to int on the builds that do not yield 0
IntMin == (0 - 2147483647) - 1

Min(a, b) == IF a < b THEN a ELSE b
Abs(a) == IF a < 0 THEN 0 - a ELSE a

\* ------------------------------------------------------------------------
\* QDate (proleptic Gregorian calendar)
\* ------------------------------------------------------------------------
isLeapYear(y) ==
    LET yy == IF y < 1 THEN y + 1 ELSE y
    IN  (yy % 4 = 0 /\ yy % 100 # 0) \/ yy % 400 = 0

daysInMonth(y, m) ==
    IF m = 2 THEN (IF isLeapYear(y) THEN 29 ELSE 28)
    ELSE IF m \in {4, 6, 9, 11} THEN 30 ELSE 31

isValidYMD(y, m, d) ==
    /\ y # 0
    /\ m \in 1..12
    /\ d > 0
    /\ d <= daysInMonth(y, m)

julianDayFromDate(y, m, d) ==
    LET yy == IF y < 0 THEN y + 1 ELSE y
        a  == (14 - m) \div 12
        yr == yy + 4800 - a
        mo == m + 12 * a - 3
    IN  d + ((153 * mo + 2) \div 5) + 365 * yr + (yr \div 4)
          - (yr \div 100) + (yr \div 400) - 32045

getDateFromJulianDay(jd) ==
    LET parsed(yr, m, e) ==
            [year  |-> IF yr <= 0 THEN yr - 1 ELSE yr,
             month |-> m + 3 - 12 * (m \div 10),
             day   |-> e - ((153 * m + 2) \div 5) + 1]
        withM(b, d, e, m) == parsed(100 * b + d - 4800 + (m \div 10), m, e)
        withE(b, d, e)    == withM(b, d, e, (5 * e + 2) \div 153)
        withD(b, c, d)    == withE(b, d, c - ((1461 * d) \div 4))
        withC(b, c)       == withD(b, c, (4 * c + 3) \div 1461)
        withB(a, b)       == withC(b, a - ((146097 * b) \div 4))
        withA(a)          == withB(a, (4 * a + 3) \div 146097)
    IN  withA(jd + 32044)

isValid(date) == date # NullJd

QYear(date)  == IF isValid(date) THEN getDateFromJulianDay(date).year ELSE 0
QMonth(date) == IF isValid(date) THEN getDateFromJulianDay(date).month ELSE 0
QDay(date)   == IF isValid(date) THEN getDateFromJulianDay(date).day ELSE 0

\* QDate::setDate(y, m, d): the date becomes null when (y, m, d) is no date
setDate(y, m, d) ==
    IF isValidYMD(y, m, d) THEN julianDayFromDate(y, m, d) ELSE NullJd

\* QDate::addYears(n): a null date stays null, year 0 is skipped and the
\* day is clamped to the length of the month
addYears(date, n) ==
    LET fixedDate(y, m, d) ==
            IF y = 0 THEN NullJd ELSE setDate(y, m, Min(d, daysInMonth(y, m)))
        skipZero(old, y) ==
            IF (old > 0 /\ y <= 0) \/ (old < 0 /\ y >= 0)
            THEN (IF n > 0 THEN y + 1 ELSE y - 1)
            ELSE y
        moved(pd) == fixedDate(skipZero(pd.year, pd.year + n), pd.month, pd.day)
    IN  IF ~isValid(date) THEN NullJd ELSE moved(getDateFromJulianDay(date))

\* An absent field reads as the empty string
NoDate == <<>>

\* QDate::fromString(md + " " + year, "MM.dd yyyy"); md is <<month, day>>
fromString(md, y) ==
    IF md = NoDate \/ y < 1000 \/ y > 9999 THEN NullJd
    ELSE setDate(y, md[1], md[2])

\* QDate::fromJulianDay(currentJD): the double is truncated to an integer
fromJulianDay(jd) == jd \div TimeScale

\* QDate::toJulianDay() as a time in 1/TimeScale days
toJulianDay(date) == date * TimeScale

\* ------------------------------------------------------------------------
\* Catalog records (the QVariantMap handed to the constructor)
\* ------------------------------------------------------------------------
MandatoryKeys == {"showerID", "activity", "radiantAlpha", "radiantDelta"}

\* one piece of activityMap.value("variable").toString().split("-"):
\* a decimal number (ok) or anything else
Num(n) == [ok |-> TRUE, val |-> n]
NotNum == [ok |-> FALSE, val |-> 0]
VarAbsent   == <<NotNum>>
VarGood     == <<Num(2), Num(5)>>
VarBadPiece == <<Num(2), NotNum>>
VarThree    == <<Num(2), Num(5), Num(7)>>

ActRec(zhr, variable, year, start, finish, peak) ==
    [zhr |-> zhr, variable |-> variable, year |-> year,
     start |-> start, finish |-> finish, peak |-> peak]

DateOpts == {NoDate, <<1, 5>>, <<12, 20>>}
ConfirmedYear == 2016

\* index 0 of "activity": every combination of the three dates, and every
\* kind of zhr/variable on a window that spans the new year
GenericDateRecs ==
    {ActRec(10, VarAbsent, 0, s, f, p) : s \in DateOpts, f \in DateOpts, p \in DateOpts}
GenericZhrRecs ==
    {ActRec(z[1], z[2], 0, <<12, 20>>, <<1, 5>>, <<1, 5>>) :
        z \in {<<VariableZHR, VarGood>>, <<VariableZHR, VarAbsent>>,
               <<VariableZHR, VarBadPiece>>, <<VariableZHR, VarThree>>,
               <<0 - 5, VarAbsent>>, <<0, VarGood>>}}
GenericRecs == GenericDateRecs \cup GenericZhrRecs

\* indices >= 1: dated records that give all, some or none of their fields
ConfirmedDates ==
    {<<NoDate, NoDate, NoDate>>,
     <<<<1, 5>>, <<12, 20>>, <<12, 20>>>>,
     <<<<12, 20>>, NoDate, NoDate>>}
ConfirmedPlainRecs ==
    {ActRec(0, VarAbsent, ConfirmedYear, d[1], d[2], d[3]) : d \in ConfirmedDates}
ConfirmedRecs ==
    {ActRec(z[1], z[2], ConfirmedYear, d[1], d[2], d[3]) :
        z \in {<<0, VarAbsent>>, <<20, VarAbsent>>,
               <<VariableZHR, VarGood>>, <<VariableZHR, VarAbsent>>},
        d \in ConfirmedDates}
OverlapRecs ==
    {ActRec(0, VarAbsent, ConfirmedYear, NoDate, NoDate, NoDate),
     ActRec(20, VarAbsent, ConfirmedYear, <<1, 5>>, <<12, 20>>, <<12, 20>>),
     ActRec(30, VarAbsent, ConfirmedYear, <<12, 20>>, <<1, 5>>, <<12, 20>>)}
PlainGeneric    == ActRec(10, VarAbsent, 0, <<1, 5>>, <<12, 20>>, <<1, 5>>)
SpanningGeneric == ActRec(10, VarAbsent, 0, <<12, 20>>, <<1, 5>>, <<1, 5>>)

\* the lists the per-frame update is explored on
TickLists ==
    {<<>>}
    \cup {<<g>> : g \in GenericRecs}
    \cup {<<g, c>> : g \in {PlainGeneric, SpanningGeneric}, c \in ConfirmedPlainRecs}
    \cup {<<g, c1, c2>> : g \in {SpanningGeneric},
                          c1 \in OverlapRecs, c2 \in OverlapRecs}

\* the lists construction is explored on
ActivityLists ==
    TickLists
    \cup {<<g, c>> : g \in GenericDateRecs, c \in ConfirmedPlainRecs}
    \cup {<<g, c>> : g \in GenericZhrRecs, c \in ConfirmedRecs}
    \cup {<<g, c1, c2>> : g \in {PlainGeneric, SpanningGeneric},
                          c1 \in OverlapRecs, c2 \in OverlapRecs}

Color(name, intensity) == [color |-> name, intensity |-> intensity]
White == <<Color("white", FullIntensity)>>
ColorLists ==
    {<<>>,
     <<Color("red", 60), Color("blue", 30)>>,
     <<Color("red", 60), Color("blue", 40)>>,
     <<Color("red", 150), Color("blue", 0 - 50)>>,
     <<Color("green", 100)>>,
     <<Color("white", 40)>>}

Record(keys, activity, hasColors, colors, drift) ==
    [keys |-> keys, radiantAlpha |-> 100, radiantDelta |-> 20,
     driftAlpha |-> drift, driftDelta |-> 0 - drift,
     activity |-> activity, hasColors |-> hasColors, colors |-> colors]

TickRecords ==
    {Record(MandatoryKeys \ {k}, <<PlainGeneric>>, FALSE, <<>>, 3) :
        k \in {"radiantAlpha", "activity"}}
    \cup {Record(MandatoryKeys, l, FALSE, <<>>, 3) : l \in TickLists}

\* showers for the exploration of the meteor collection: a generic window
\* alone, and one with a dated window of 2016 whose peak is its first day
FrameRecords ==
    {Record(MandatoryKeys, <<PlainGeneric>>, FALSE, <<>>, 3),
     Record(MandatoryKeys, <<SpanningGeneric>>, FALSE, <<>>, 3),
     Record(MandatoryKeys,
            <<SpanningGeneric,
              ActRec(20, VarAbsent, ConfirmedYear, <<1, 5>>, <<12, 20>>, <<1, 5>>)>>,
            FALSE, <<>>, 3)}

Records ==
    TickRecords
    \cup {Record(MandatoryKeys \ {k}, <<PlainGeneric>>, FALSE, <<>>, 3) : k \in MandatoryKeys}
    \cup {Record(MandatoryKeys, l, FALSE, <<>>, 3) : l \in ActivityLists}
    \cup {Record(MandatoryKeys, <<g>>, TRUE, c, 0) :
            g \in {PlainGeneric, ActRec(10, VarAbsent, 0, <<1, 5>>, NoDate, <<1, 5>>)},
            c \in ColorLists}

\* ------------------------------------------------------------------------
\* MeteorShower: types
\* ------------------------------------------------------------------------
INVALID == "INVALID"
UNDEFINED == "UNDEFINED"
INACTIVE == "INACTIVE"
ACTIVE_GENERIC == "ACTIVE_GENERIC"
ACTIVE_CONFIRMED == "ACTIVE_CONFIRMED"

\* a value-initialised Activity: zero numbers, empty list, null dates
EmptyActivity ==
    [year |-> 0, zhr |-> 0, variable |-> <<>>,
     start |-> NullJd, finish |-> NullJd, peak |-> NullJd]

\* unit of the current radiant: drift/DriftInterval per day, time in
\* 1/TimeScale days
AngleScale == TimeScale * DriftInterval

\* ------------------------------------------------------------------------
\* MeteorShower::MeteorShower
\* ------------------------------------------------------------------------
\* as mandatoryPresent, with the test of "radiantAlpha" left out
mandatoryPresent_noAlpha(map) ==
    /\ "showerID" \in map.keys
    /\ "activity" \in map.keys
    /\ "radiantDelta" \in map.keys

\* the test of the mandatory fields
mandatoryPresent(map) ==
    /\ "showerID" \in map.keys
    /\ "activity" \in map.keys
    /\ "radiantAlpha" \in map.keys
    /\ "radiantDelta" \in map.keys

\* as parseVariable, with the outcome of the conversions ignored
parseVariable_sizeOnly(variable) ==
    LET sized == Len(variable) = 2
    IN  [ok   |-> sized,
         list |-> IF sized THEN <<variable[1].val, variable[2].val>> ELSE <<>>]

\* the 'variable' field of a record whose zhr is -1: the loop converts the
\* pieces while ok holds, which starts as "there are exactly two pieces"
parseVariable(variable) ==
    LET sized  == Len(variable) = 2
        first  == IF sized THEN <<variable[1].val>> ELSE <<>>
        ok1    == sized /\ variable[1].ok
        second == IF ok1 THEN <<variable[2].val>> ELSE <<>>
        ok2    == ok1 /\ variable[2].ok
    IN  [ok |-> ok2, list |-> first \o second]

\* as parseActivity, with the fix of the 'peak' year left out
parseActivity_noPeakFix(am) ==
    LET year   == IF am.year = 0 THEN genericYear ELSE am.year
        start  == fromString(am.start, year)
        finish == fromString(am.finish, year)
        peak   == fromString(am.peak, year)
        fix    == isValid(start) /\ isValid(finish) /\ isValid(peak)
    IN  [year     |-> am.year,
         zhr      |-> am.zhr,
         variable |-> IF am.zhr = VariableZHR
                      THEN parseVariable(am.variable).list
                      ELSE <<>>,
         start    |-> start,
         finish   |-> IF fix /\ start > finish THEN addYears(finish, 1) ELSE finish,
         peak     |-> peak]

\* one pass of the foreach body: the Activity built from one record
parseActivity(am) ==
    LET year   == IF am.year = 0 THEN genericYear ELSE am.year
        start  == fromString(am.start, year)
        finish == fromString(am.finish, year)
        peak   == fromString(am.peak, year)
        fix    == isValid(start) /\ isValid(finish) /\ isValid(peak)
    IN  [year     |-> am.year,
         zhr      |-> am.zhr,
         variable |-> IF am.zhr = VariableZHR
                      THEN parseVariable(am.variable).list
                      ELSE <<>>,
         start    |-> start,
         finish   |-> IF fix /\ start > finish THEN addYears(finish, 1) ELSE finish,
         peak     |-> IF fix /\ start > peak THEN addYears(peak, 1) ELSE peak]

\* the foreach over "activity": stops at the first malformed 'variable'
RECURSIVE buildActivities(_, _, _)
buildActivities(list, i, acc) ==
    IF i > Len(list) THEN [ok |-> TRUE, activities |-> acc]
    ELSE IF list[i].zhr = VariableZHR /\ ~parseVariable(list[i].variable).ok
         THEN [ok |-> FALSE, activities |-> acc]
         ELSE buildActivities(list, i + 1, Append(acc, parseActivity(list[i])))

\* one pass of the gap-filling loop for activity a against the generic g
fillActivity(a, g) ==
    LET aux == a.year - genericYear
    IN  [a EXCEPT
           !.zhr      = IF a.zhr = 0 THEN g.zhr ELSE a.zhr,
           !.variable = IF a.zhr = 0 THEN g.variable ELSE a.variable,
           !.start    = IF isValid(a.start) THEN a.start ELSE addYears(g.start, aux),
           !.finish   = IF isValid(a.finish) THEN a.finish ELSE addYears(g.finish, aux),
           !.peak     = IF isValid(a.peak) THEN a.peak ELSE addYears(g.peak, aux)]

datesValid(a) == isValid(a.start) /\ isValid(a.finish) /\ isValid(a.peak)

\* the gap-filling loop: stops after replacing the first activity that
\* still has a null date
RECURSIVE fillActivities(_, _)
fillActivities(acts, i) ==
    IF i > Len(acts) THEN [ok |-> TRUE, activities |-> acts]
    ELSE LET a    == fillActivity(acts[i], acts[1])
             next == [acts EXCEPT ![i] = a]
         IN  IF ~datesValid(a) THEN [ok |-> FALSE, activities |-> next]
             ELSE fillActivities(next, i + 1)

RECURSIVE totalIntensity(_)
totalIntensity(colors) ==
    IF colors = <<>> THEN 0
    ELSE colors[1].intensity + totalIntensity(Tail(colors))

\* as buildColors, with a list of another total than 100 kept
buildColors_keep(map) ==
    IF map.hasColors /\ map.colors # <<>> THEN map.colors ELSE White

\* the 'colors' block
buildColors(map) ==
    LET listed == IF map.hasColors /\ totalIntensity(map.colors) = FullIntensity
                  THEN map.colors ELSE <<>>
    IN  IF listed = <<>> THEN White ELSE listed

\* the members as the initialiser list leaves them
Blank ==
    [m_status |-> INVALID, m_rAlphaPeak |-> 0, m_rDeltaPeak |-> 0,
     m_driftAlpha |-> 0, m_driftDelta |-> 0,
     m_radiantAlpha |-> 0, m_radiantDelta |-> 0,
     m_activities |-> <<>>, m_colors |-> <<>>, fault |-> "none"]

\* The objects construction can leave for a record.  Reading index 0 of an
\* empty activity list is out of bounds: a build with assertions stops
\* there, any other build goes on with the reference unused.
construct(map) ==
    IF ~mandatoryPresent(map) THEN {Blank}
    ELSE
      LET read  == [Blank EXCEPT
                      !.m_rAlphaPeak   = map.radiantAlpha,
                      !.m_rDeltaPeak   = map.radiantDelta,
                      !.m_radiantAlpha = AngleScale * map.radiantAlpha,
                      !.m_radiantDelta = AngleScale * map.radiantDelta,
                      !.m_driftAlpha   = map.driftAlpha,
                      !.m_driftDelta   = map.driftDelta]
          built == buildActivities(map.activity, 1, <<>>)
      IN  IF ~built.ok THEN {[read EXCEPT !.m_activities = built.activities]}
          ELSE
            LET filled == IF built.activities = <<>>
                          THEN [ok |-> TRUE, activities |-> <<>>]
                          ELSE fillActivities(built.activities, 2)
                done   == [read EXCEPT !.m_activities = filled.activities]
                whole  == [done EXCEPT !.m_colors = buildColors(map),
                                       !.m_status = UNDEFINED]
            IN  IF ~filled.ok THEN {done}
                ELSE IF built.activities = <<>>
                     THEN {whole, [read EXCEPT !.fault = "abort"]}
                     ELSE {whole}

\* ------------------------------------------------------------------------
\* Activity resolution
\* ------------------------------------------------------------------------
\* MeteorShower::hasConfirmedShower: the first dated activity whose
\* inclusive [start, finish] holds the date
RECURSIVE confirmedFrom(_, _, _)
confirmedFrom(acts, i, date) ==
    IF i > Len(acts) THEN [found |-> FALSE, activity |-> EmptyActivity]
    ELSE IF date >= acts[i].start /\ date <= acts[i].finish
         THEN [found |-> TRUE, activity |-> acts[i]]
         ELSE confirmedFrom(acts, i + 1, date)

hasConfirmedShower(acts, date) == confirmedFrom(acts, 2, date)

\* date.setDate(year, date.month(), date.day())
moveToYear(date, year) ==
    LET moved(pd) == setDate(year, pd.month, pd.day)
    IN  IF isValid(date) THEN moved(getDateFromJulianDay(date)) ELSE NullJd

\* as alignGeneric, with the finish put in the year of the start
alignGeneric_startYear(g, startYear, finishYear) ==
    [g EXCEPT !.start  = moveToYear(g.start, startYear),
              !.finish = moveToYear(g.finish, startYear)]

\* g with start and finish moved to the given years
alignGeneric(g, startYear, finishYear) ==
    [g EXCEPT !.start  = moveToYear(g.start, startYear),
              !.finish = moveToYear(g.finish, finishYear)]

inWindow(date, a) == date >= a.start /\ date <= a.finish

\* as peakYear, with the peak always put in the year of the start
peakYear_onStart(peakOnStart, aligned) == QYear(aligned.start)

\* the year the peak of a matched window is put in
peakYear(peakOnStart, aligned) ==
    IF peakOnStart THEN QYear(aligned.start) ELSE QYear(aligned.finish)

\* MeteorShower::hasGenericShower (acts is not empty)
hasGenericShower(acts, date) ==
    LET g == acts[1]
        peakOnStart == QYear(g.peak) = QYear(g.start)
        result(aligned) ==
            IF inWindow(date, aligned)
            THEN [found    |-> TRUE,
                  activity |-> [aligned EXCEPT
                      !.year = QYear(aligned.start),
                      !.peak = moveToYear(g.peak,
                                          peakYear(peakOnStart, aligned))]]
            ELSE [found |-> FALSE, activity |-> EmptyActivity]
        \* the current year with the next one, else the last with the current
        edge(year, next) ==
            IF inWindow(date, next) THEN result(next)
            ELSE result(alignGeneric(next, year - 1, year))
        search(year) ==
            IF QYear(g.start) # QYear(g.finish)
            THEN edge(year, alignGeneric(g, year, year + 1))
            ELSE result(alignGeneric(g, year, year))
    IN  search(QYear(date))

\* as resolveStatus, with the reset to INACTIVE left out
resolveStatus_noReset(old, confirmedFound, genericFound) ==
    IF confirmedFound THEN ACTIVE_CONFIRMED
    ELSE IF genericFound THEN ACTIVE_GENERIC
    ELSE old

\* the status update sets: INACTIVE unless one of the searches found a window
resolveStatus(old, confirmedFound, genericFound) ==
    IF confirmedFound THEN ACTIVE_CONFIRMED
    ELSE IF genericFound THEN ACTIVE_GENERIC
    ELSE INACTIVE

\* as enabled, without the setting that shows active radiants only
enabled_always(status, activeRadiantOnly) == status # INVALID

\* MeteorShower::enabled
enabled(status, activeRadiantOnly) ==
    IF status = INVALID THEN FALSE
    ELSE IF status = UNDEFINED THEN TRUE
    ELSE IF activeRadiantOnly
         THEN status = ACTIVE_GENERIC \/ status = ACTIVE_CONFIRMED
         ELSE TRUE

\* ------------------------------------------------------------------------
\* Rate model
\* ------------------------------------------------------------------------
\* qRound of num/den (den > 0): the nearest integer, halves upwards
qRound(num, den) == (2 * num + den) \div (2 * den)

\* ExpScale * exp(-n) for a natural n, by repeated multiplication
RECURSIVE expNegInt(_)
expNegInt(n) ==
    IF n = 0 THEN ExpScale
    ELSE (expNegInt(n - 1) * ((ExpScale * 36788) \div 100000)) \div ExpScale

\* ExpScale * exp(-f / ExpScale) for 0 <= f < ExpScale, by its power series
RECURSIVE expNegSeries(_, _, _)
expNegSeries(f, k, term) ==
    IF k > 12 \/ term = 0 THEN 0
    ELSE term - expNegSeries(f, k + 1, (term * f) \div (k * ExpScale))

expNegFrac(f) == expNegSeries(f, 1, ExpScale)

\* ExpScale * exp(-(x / sd)^2) with sd = span / 2, for span # 0
gaussianFactor(x, span) ==
    LET big == Abs(x) > 1000000 \/ Abs(span) > 1000000
        expNeg(q) ==
            (expNegInt(q \div ExpScale) * expNegFrac(q % ExpScale)) \div ExpScale
        square(r) == expNeg((r * r) \div ExpScale)
        ratio(ax, as) ==
            IF 2 * ax >= 8 * as THEN 0 ELSE square((2 * ax * ExpScale) \div as)
    IN  IF big THEN ratio(Abs(x) \div 1024, Abs(span) \div 1024)
        ELSE ratio(Abs(x), Abs(span))

\* as calculateZHR, with the catalog's rate of a quiet night at all times
calculateZHR_constant(activity, currentJD) == {DriftInterval}

\* MeteorShower::calculateZHR: the values the call can return.  With a zero
\* standard deviation the exponent is -x^2/0: minus infinity away from the
\* peak, and 0/0 = NaN at the peak, whose conversion to int is undefined.
calculateZHR(activity, currentJD) ==
    LET startJD  == toJulianDay(activity.start)
        finishJD == toJulianDay(activity.finish)
        peakJD   == toJulianDay(activity.peak)
        maxZHR   == IF activity.zhr = VariableZHR THEN activity.variable[2]
                    ELSE activity.zhr
        minZHR   == IF activity.zhr = VariableZHR THEN activity.variable[1]
                    ELSE 0
        rate(x, span) ==
            IF span = 0 /\ x = 0 THEN {0, IntMin}
            ELSE IF span = 0 THEN {qRound(minZHR * ExpScale, ExpScale)}
            ELSE {qRound(maxZHR * gaussianFactor(x, span) + minZHR * ExpScale,
                         ExpScale)}
    IN  rate(currentJD - peakJD,
             IF currentJD >= startJD /\ currentJD < peakJD
             THEN peakJD - startJD
             ELSE finishJD - peakJD)

\* ------------------------------------------------------------------------
\* State
\* ------------------------------------------------------------------------
VARIABLES
    catalog,            \* the record the shower was constructed from
    m_status,
    m_activities,
    m_activity,
    m_rAlphaPeak,
    m_rDeltaPeak,
    m_driftAlpha,       \* per DriftInterval days
    m_driftDelta,
    m_radiantAlpha,     \* in 1/AngleScale units
    m_radiantDelta,
    m_colors,
    m_activeMeteors,    \* sequence of meteor identities
    allocated,          \* number of MeteorObj created so far
    fault,              \* "none", "abort" (assertion) or "crash" (bad read)
    ticked,             \* update has returned at least once
    currentJD,          \* core->getJD() at the latest call of update
    activeRadiantOnly,  \* m_mgr->getActiveRadiantOnly() at that call
    realTimeSpeed,      \* core->getRealTimeSpeed() at that call
    deltaTime,          \* its deltaTime argument, in seconds
    repeated,           \* that call had the time and settings of the call
                        \* before it, and no elapsed time
    zhrCalled,          \* that call reached calculateZHR
    currentZHR,         \* and this is what it returned
    draws,              \* the random draws that call made
    aging               \* what the aging step of that call did

shower == <<m_activities, m_rAlphaPeak, m_rDeltaPeak, m_driftAlpha,
            m_driftDelta, m_colors, catalog>>
vars == <<catalog, m_status, m_activities, m_activity, m_rAlphaPeak,
          m_rDeltaPeak, m_driftAlpha, m_driftDelta, m_radiantAlpha,
          m_radiantDelta, m_colors, m_activeMeteors, allocated, fault, ticked,
          currentJD, activeRadiantOnly, realTimeSpeed, deltaTime, repeated,
          zhrCalled, currentZHR, draws, aging>>

\* ------------------------------------------------------------------------
\* Inputs of a tick
\* ------------------------------------------------------------------------
\* whole Julian days, and a time within the day of 25 December
TickDays ==
    {setDate(ConfirmedYear, 1, 5), setDate(ConfirmedYear, 3, 1),
     setDate(ConfirmedYear + 1, 1, 2)}
TickTimes ==
    {toJulianDay(d) : d \in TickDays}
    \cup {toJulianDay(setDate(ConfirmedYear, 12, 25)) + 1}
TickSeconds == {0, 108}
\* frames of 0 s, 108 s and 504 s: at a rate of 10 per hour, 0.3 and 1.4
\* meteors per frame
FrameSeconds == TickSeconds \cup {504}

\* the aging step did not run
NoAging ==
    [ran |-> FALSE, calls |-> [m \in {} |-> 0], alive |-> {}, after |-> <<>>]

\* the state after MeteorShower(mgr, map) for a map of the given set
Constructed(records) ==
    /\ catalog \in records
    /\ \E o \in construct(catalog) :
          /\ m_status = o.m_status
          /\ m_activities = o.m_activities
          /\ m_rAlphaPeak = o.m_rAlphaPeak
          /\ m_rDeltaPeak = o.m_rDeltaPeak
          /\ m_driftAlpha = o.m_driftAlpha
          /\ m_driftDelta = o.m_driftDelta
          /\ m_radiantAlpha = o.m_radiantAlpha
          /\ m_radiantDelta = o.m_radiantDelta
          /\ m_colors = o.m_colors
          /\ fault = o.fault
    /\ m_activity = EmptyActivity
    /\ m_activeMeteors = <<>>
    /\ allocated = 0
    /\ ticked = FALSE
    /\ currentJD = 0
    /\ activeRadiantOnly = FALSE
    /\ realTimeSpeed = FALSE
    /\ deltaTime = 0
    /\ repeated = FALSE
    /\ zhrCalled = FALSE
    /\ currentZHR = 0
    /\ draws = 0
    /\ aging = NoAging

Init == Constructed(TickRecords)

InitLoad == Constructed(Records)

InitFrame == Constructed(FrameRecords)

\* ------------------------------------------------------------------------
\* MeteorShower::update
\* ------------------------------------------------------------------------
meteorIds(meteors) == {meteors[i] : i \in 1..Len(meteors)}

\* QList::removeOne: the list without its first element equal to m
removeOne(list, m) ==
    LET at    == {i \in 1..Len(list) : list[i] = m}
        first == CHOOSE i \in at : \A j \in at : i <= j
    IN  IF at = {} THEN list
        ELSE SubSeq(list, 1, first - 1) \o SubSeq(list, first + 1, Len(list))

\* as foreachUpdate, scanning the list itself by index while it shrinks
RECURSIVE foreachUpdate_inPlace(_, _, _, _, _)
foreachUpdate_inPlace(copy, i, live, alive, calls) ==
    IF i > Len(live) THEN [meteors |-> live, calls |-> calls]
    ELSE foreachUpdate_inPlace(copy, i + 1,
                               IF live[i] \in alive THEN live
                               ELSE removeOne(live, live[i]),
                               alive, [calls EXCEPT ![live[i]] = @ + 1])

\* foreach (MeteorObj* m, m_activeMeteors): the scan runs over the copy
\* foreach took of the list, from its element i on; m->update() is called
\* (and counted in calls), it returns true for the meteors of alive, and
\* the others are removed from the list itself
RECURSIVE foreachUpdate(_, _, _, _, _)
foreachUpdate(copy, i, live, alive, calls) ==
    IF i > Len(copy) THEN [meteors |-> live, calls |-> calls]
    ELSE foreachUpdate(copy, i + 1,
                       IF copy[i] \in alive THEN live
                       ELSE removeOne(live, copy[i]),
                       alive, [calls EXCEPT ![copy[i]] = @ + 1])

\* the aging step, when update returns false for the meteors of expired:
\* the list it leaves and the calls of MeteorObj::update it made
ageMeteors(meteors, expired) ==
    foreachUpdate(meteors, 1, meteors, meteorIds(meteors) \ expired,
                  [m \in meteorIds(meteors) |-> 0])

\* k new meteors appended, numbered from first + 1
RECURSIVE appendMeteors(_, _, _)
appendMeteors(meteors, first, k) ==
    IF k = 0 THEN meteors
    ELSE appendMeteors(Append(meteors, first + 1), first + 1, k - 1)

\* as maxMpf, without the floor of one draw
maxMpf_noFloor(zhr, dt) == qRound(zhr * dt, SecondsPerHour)

\* maximum amount of meteors for a frame of dt seconds at the given ZHR
maxMpf(zhr, dt) ==
    LET rounded == qRound(zhr * dt, SecondsPerHour)
    IN  IF rounded < 1 THEN 1 ELSE rounded

\* as canSpawn, for a draw "prob <= rate"
canSpawn_orEqual(zhr, dt) == zhr * dt >= 0

\* a draw "prob < rate" can succeed: prob = qrand() / RAND_MAX is any value
\* of [0, 1] and rate = mpf / maxMpf has the sign of zhr * dt
canSpawn(zhr, dt) == zhr * dt > 0

\* as driftedRadiant, with the drift applied in every status
driftedRadiant_always(peakAngle, drift, status, activity, jd) ==
    AngleScale * peakAngle + drift * (jd - toJulianDay(activity.peak))

\* as skipsSpawning, for a host that never reports a stopped clock
skipsSpawning_never(rts) == FALSE

\* "going forward or backward? don't create new meteors": update returns
\* before the rate is computed unless the clock runs in real time
skipsSpawning(rts) == ~rts

\* drift-corrected radiant coordinate
driftedRadiant(peakAngle, drift, status, activity, jd) ==
    AngleScale * peakAngle
      + (IF status # INACTIVE THEN drift * (jd - toJulianDay(activity.peak)) ELSE 0)

Update(jd, aro, rts, dt) ==
    /\ fault = "none"
    /\ currentJD' = jd
    /\ activeRadiantOnly' = aro
    /\ realTimeSpeed' = rts
    /\ deltaTime' = dt
    /\ repeated' = (/\ ticked
                    /\ jd = currentJD
                    /\ aro = activeRadiantOnly
                    /\ rts = realTimeSpeed
                    /\ dt = 0)
    /\ UNCHANGED shower
    /\ IF m_status = INVALID
       THEN /\ ticked' = TRUE
            /\ zhrCalled' = FALSE
            /\ currentZHR' = 0
            /\ draws' = 0
            /\ aging' = NoAging
            /\ UNCHANGED <<m_status, m_activity, m_radiantAlpha, m_radiantDelta,
                           m_activeMeteors, allocated, fault>>
       ELSE IF m_activities = <<>>
       THEN \* hasGenericShower copies index 0 of an empty list
            /\ fault' = "crash"
            /\ m_status' = INACTIVE
            /\ m_activity' = EmptyActivity
            /\ zhrCalled' = FALSE
            /\ currentZHR' = 0
            /\ draws' = 0
            /\ aging' = NoAging
            /\ UNCHANGED <<ticked, m_radiantAlpha, m_radiantDelta,
                           m_activeMeteors, allocated>>
       ELSE
         \E confirmed \in {hasConfirmedShower(m_activities, fromJulianDay(jd))},
            generic \in {hasGenericShower(m_activities, fromJulianDay(jd))} :
         \E status \in {resolveStatus(m_status, confirmed.found, generic.found)},
            activity \in {IF confirmed.found THEN confirmed.activity
                          ELSE generic.activity} :
           /\ m_status' = status
           /\ m_activity' = activity
           /\ ticked' = TRUE
           /\ UNCHANGED fault
           /\ IF ~enabled(status, aro)
              THEN /\ zhrCalled' = FALSE
                   /\ currentZHR' = 0
                   /\ draws' = 0
                   /\ aging' = NoAging
                   /\ UNCHANGED <<m_radiantAlpha, m_radiantDelta,
                                  m_activeMeteors, allocated>>
              ELSE
                /\ m_radiantAlpha' =
                     driftedRadiant(m_rAlphaPeak, m_driftAlpha, status, activity, jd)
                /\ m_radiantDelta' =
                     driftedRadiant(m_rDeltaPeak, m_driftDelta, status, activity, jd)
                /\ \E expired \in SUBSET meteorIds(m_activeMeteors) :
                   \E aged \in {ageMeteors(m_activeMeteors, expired)} :
                     /\ aging' = [ran   |-> TRUE,
                                  calls |-> aged.calls,
                                  alive |-> meteorIds(m_activeMeteors) \ expired,
                                  after |-> aged.meteors]
                     /\ IF skipsSpawning(rts)
                        THEN /\ zhrCalled' = FALSE
                             /\ currentZHR' = 0
                             /\ draws' = 0
                             /\ m_activeMeteors' = aged.meteors
                             /\ UNCHANGED allocated
                        ELSE \E zhr \in calculateZHR(activity, jd) :
                               /\ zhrCalled' = TRUE
                               /\ currentZHR' = zhr
                               /\ IF zhr < 1
                                  THEN /\ draws' = 0
                                       /\ m_activeMeteors' = aged.meteors
                                       /\ UNCHANGED allocated
                                  ELSE \E n \in {maxMpf(zhr, dt)} :
                                       \E k \in 0..Min(n, MaxMeteors - allocated) :
                                         \* a draw succeeds only below a
                                         \* positive rate
                                         /\ (k > 0 => canSpawn(zhr, dt))
                                         /\ draws' = n
                                         /\ m_activeMeteors' =
                                              appendMeteors(aged.meteors,
                                                            allocated, k)
                                         /\ allocated' = allocated + k

Next ==
    \E jd \in TickTimes, aro \in BOOLEAN, rts \in BOOLEAN, dt \in TickSeconds :
        /\ Update(jd, aro, rts, dt)
        /\ allocated' <= TickMeteors

Spec == Init /\ [][Next]_vars

\* every record of the catalog, ticked at the ends of one day with the clock
\* stopped
NextLoad ==
    \E jd \in {toJulianDay(setDate(ConfirmedYear, 1, 5)),
                toJulianDay(setDate(ConfirmedYear, 12, 25)) + 1},
       aro \in BOOLEAN :
        Update(jd, aro, FALSE, 0)

SpecLoad == InitLoad /\ [][NextLoad]_vars

\* a few showers with every input of a frame, long frames included, and
\* several meteors alive at once
NextFrame ==
    \E jd \in TickTimes, aro \in BOOLEAN, rts \in BOOLEAN, dt \in FrameSeconds :
        Update(jd, aro, rts, dt)

SpecFrame == InitFrame /\ [][NextFrame]_vars

\* ------------------------------------------------------------------------
\* Properties
\* ------------------------------------------------------------------------
Running == fault = "none"

\* C1: a shower built from a record that lacks one of showerID, activity,
\* radiantAlpha, radiantDelta is INVALID and stays so through every update,
\* is enabled under no setting and has no active meteor.
C1_MissingFieldStaysInvalid ==
    catalog.keys # MandatoryKeys =>
        /\ m_status = INVALID
        /\ \A aro \in BOOLEAN : ~enabled(m_status, aro)
        /\ m_activeMeteors = <<>>

\* an update in real time with elapsed time on a shower lacking a field
C1_Witness ==
    /\ catalog.keys # MandatoryKeys
    /\ ticked
    /\ realTimeSpeed
    /\ deltaTime > 0
    /\ currentJD = toJulianDay(setDate(ConfirmedYear, 3, 1))

\* the date the latest update resolved the activity for
TickDate == fromJulianDay(currentJD)

\* a window with both ends set holds the date, ends included
Holds(date, start, finish) ==
    /\ isValid(start)
    /\ isValid(finish)
    /\ start <= date
    /\ date <= finish

SomeConfirmedHolds(date) ==
    \E i \in 2..Len(m_activities) :
        Holds(date, m_activities[i].start, m_activities[i].finish)

\* month and day of a date, put in the given year
InYear(date, year) ==
    setDate(year, getDateFromJulianDay(date).month, getDateFromJulianDay(date).day)

\* the generic window laid over the year of the date: over that year alone,
\* or, when it runs into the next year, from that year into the next or from
\* the year before into that year
GenericHolds(date) ==
    LET g == m_activities[1]
        y == getDateFromJulianDay(date).year
    IN  /\ isValid(g.start)
        /\ isValid(g.finish)
        /\ IF getDateFromJulianDay(g.start).year # getDateFromJulianDay(g.finish).year
           THEN \/ Holds(date, InYear(g.start, y), InYear(g.finish, y + 1))
                \/ Holds(date, InYear(g.start, y - 1), InYear(g.finish, y))
           ELSE Holds(date, InYear(g.start, y), InYear(g.finish, y))

\* C2: after an update of a shower that is not INVALID, the status is
\* ACTIVE_CONFIRMED exactly when a dated window holds the current date,
\* ACTIVE_GENERIC exactly when none does and the generic window laid over the
\* date's year holds it, and INACTIVE otherwise.
C2_StatusFollowsWindows ==
    (Running /\ ticked /\ m_status # INVALID) =>
        /\ m_status = ACTIVE_CONFIRMED <=> SomeConfirmedHolds(TickDate)
        /\ m_status = ACTIVE_GENERIC <=>
              (~SomeConfirmedHolds(TickDate) /\ GenericHolds(TickDate))
        /\ m_status = INACTIVE <=>
              (~SomeConfirmedHolds(TickDate) /\ ~GenericHolds(TickDate))

Active == {INACTIVE, ACTIVE_GENERIC, ACTIVE_CONFIRMED}

\* C3: a shower whose construction succeeded is UNDEFINED before its first
\* update and only then; every update leaves it INACTIVE, ACTIVE_GENERIC or
\* ACTIVE_CONFIRMED, never UNDEFINED or INVALID again.
C3_UndefinedOnlyInitially ==
    /\ [](Running /\ m_status # INVALID => (m_status = UNDEFINED <=> ~ticked))
    /\ [][m_status # INVALID => m_status' \in Active]_vars

\* meteors of an earlier update are alive while a later one finds no window
C3_Witness ==
    /\ Running
    /\ ticked
    /\ m_status = INACTIVE
    /\ m_activeMeteors # <<>>

Spanning(g) ==
    /\ isValid(g.start)
    /\ isValid(g.finish)
    /\ getDateFromJulianDay(g.start).year # getDateFromJulianDay(g.finish).year

TickYear == getDateFromJulianDay(TickDate).year

\* C4: for a generic window whose start and finish lie in different years,
\* a date of year Y is matched exactly when it lies in [start in Y, finish
\* in Y+1] or in [start in Y-1, finish in Y], and the window returned has
\* those ends; 25 December of a year and 2 January of the next both get the
\* window from 20 December of the first to 5 January of the second.
C4_SpanningGenericWindow ==
    (/\ Running
     /\ ticked
     /\ m_status # INVALID
     /\ m_activities # <<>>
     /\ Spanning(m_activities[1])
     /\ ~SomeConfirmedHolds(TickDate)) =>
        LET g      == m_activities[1]
            inNext == Holds(TickDate, InYear(g.start, TickYear),
                            InYear(g.finish, TickYear + 1))
            inLast == Holds(TickDate, InYear(g.start, TickYear - 1),
                            InYear(g.finish, TickYear))
        IN  /\ m_status = ACTIVE_GENERIC <=> (inNext \/ inLast)
            /\ inNext =>
                 /\ m_activity.start = InYear(g.start, TickYear)
                 /\ m_activity.finish = InYear(g.finish, TickYear + 1)
            /\ (~inNext /\ inLast) =>
                 /\ m_activity.start = InYear(g.start, TickYear - 1)
                 /\ m_activity.finish = InYear(g.finish, TickYear)
            /\ (/\ g.start = setDate(genericYear, 12, 20)
                /\ g.finish = setDate(genericYear + 1, 1, 5)
                /\ TickDate \in {setDate(ConfirmedYear, 12, 25),
                                 setDate(ConfirmedYear + 1, 1, 2)}) =>
                 /\ m_status = ACTIVE_GENERIC
                 /\ m_activity.start = setDate(ConfirmedYear, 12, 20)
                 /\ m_activity.finish = setDate(ConfirmedYear + 1, 1, 5)

\* the window of 20 December to 5 January, asked on 2 January
C4_Witness ==
    /\ Running
    /\ ticked
    /\ m_activities # <<>>
    /\ m_activities[1].start = setDate(genericYear, 12, 20)
    /\ m_activities[1].finish = setDate(genericYear + 1, 1, 5)
    /\ TickDate = setDate(ConfirmedYear + 1, 1, 2)
    /\ m_status = ACTIVE_GENERIC
    /\ m_activity.start = setDate(ConfirmedYear, 12, 20)

Windows == 1..Len(m_activities)

Ordered(a) == a.start <= a.peak /\ a.peak <= a.finish

\* the year the dates of a record are read in
ReadYear(am) == IF am.year = 0 THEN genericYear ELSE am.year

\* the record gives start, finish and peak, and each is a date of its year
GivesAllDates(am) ==
    /\ isValid(fromString(am.start, ReadYear(am)))
    /\ isValid(fromString(am.finish, ReadYear(am)))
    /\ isValid(fromString(am.peak, ReadYear(am)))

C6_NoUnresolvedDate ==
    m_status # INVALID => \A i \in Windows : datesValid(m_activities[i])

\* the pieces are exactly two numbers
TwoIntegers(variable) ==
    /\ Len(variable) = 2
    /\ \A i \in 1..2 : variable[i].ok

\* C7: in a shower that is not INVALID every window whose zhr is -1 has a
\* variable range of two integers, its own or the generic window's; a record
\* with a window of zhr -1 whose 'variable' is not two integers leaves the
\* shower INVALID.
C7_VariableRange ==
    /\ m_status # INVALID =>
          \A i \in Windows :
              m_activities[i].zhr = VariableZHR =>
                  /\ Len(m_activities[i].variable) = 2
                  /\ LET own == catalog.activity[i]
                         src == IF own.zhr = VariableZHR THEN own
                                ELSE catalog.activity[1]
                     IN  /\ TwoIntegers(src.variable)
                         /\ m_activities[i].variable =
                              <<src.variable[1].val, src.variable[2].val>>
    /\ (\E i \in 1..Len(catalog.activity) :
           /\ catalog.activity[i].zhr = VariableZHR
           /\ ~TwoIntegers(catalog.activity[i].variable)) =>
          m_status = INVALID

\* a dated window without zhr took -1 and the range from the generic one
C7_Witness ==
    /\ m_status # INVALID
    /\ ticked
    /\ Len(m_activities) >= 2
    /\ catalog.activity[2].zhr = 0
    /\ m_activities[2].zhr = VariableZHR
    /\ m_activities[2].variable = <<2, 5>>

RECURSIVE SumOfIntensities(_)
SumOfIntensities(colors) ==
    IF colors = <<>> THEN 0
    ELSE colors[1].intensity + SumOfIntensities(Tail(colors))

\* C8: a shower that is not INVALID has a color list that is not empty and
\* either sums to 100 or is the single pair ("white", 100); a 'colors' list
\* of another total, the empty one included, is replaced by that pair and
\* the shower is not INVALID for it.
C8_ColorsSumOrWhite ==
    /\ m_status # INVALID =>
          /\ m_colors # <<>>
          /\ SumOfIntensities(m_colors) = FullIntensity \/ m_colors = White
          /\ (catalog.hasColors /\ SumOfIntensities(catalog.colors) # FullIntensity) =>
                m_colors = White
          /\ (catalog.hasColors /\ SumOfIntensities(catalog.colors) = FullIntensity) =>
                m_colors = catalog.colors
    /\ (catalog.keys = MandatoryKeys /\ catalog.activity = <<PlainGeneric>>) =>
          m_status # INVALID

\* the list of red 60 and blue 30 was replaced
C8_Witness ==
    /\ m_status # INVALID
    /\ ticked
    /\ catalog.hasColors
    /\ Len(catalog.colors) = 2
    /\ SumOfIntensities(catalog.colors) = 90
    /\ m_colors = White

\* C9: once update has run with a time and settings, running it again with
\* the same time and settings and no elapsed time leaves the status and the
\* radiant as they are and adds no meteor.
C9_IdempotentAtZeroDt ==
    [][(/\ Running
        /\ Running'
        /\ ticked
        /\ m_status # INVALID
        /\ currentJD' = currentJD
        /\ activeRadiantOnly' = activeRadiantOnly
        /\ deltaTime' = 0) =>
           /\ m_status' = m_status
           /\ m_radiantAlpha' = m_radiantAlpha
           /\ m_radiantDelta' = m_radiantDelta
           /\ meteorIds(m_activeMeteors') \subseteq meteorIds(m_activeMeteors)]_vars

\* such a repeated update, in real time at a rate of at least 1
C9_Witness ==
    /\ Running
    /\ repeated
    /\ realTimeSpeed
    /\ zhrCalled
    /\ currentZHR >= 1
    /\ m_status = ACTIVE_GENERIC
    /\ m_activeMeteors # <<>>

\* C10: the rate calculateZHR returns to update is never negative.
C10_RateNotNegative ==
    zhrCalled => currentZHR >= 0

\* the latest update made its random draws
SpawnReached == Running /\ draws > 0

\* C11: in an update that reaches the draws, the chance of a draw,
\* mpf / maxMpf with mpf = currentZHR * deltaTime / 3600, lies in [0, 1], so
\* that maxMpf draws spawn mpf meteors on average.
C11_SpawnProbabilityValid ==
    SpawnReached =>
        /\ 0 <= currentZHR * deltaTime
        /\ currentZHR * deltaTime <= draws * SecondsPerHour

\* the radiant is at the catalog's peak position
RadiantAtPeak ==
    /\ m_radiantAlpha = AngleScale * m_rAlphaPeak
    /\ m_radiantDelta = AngleScale * m_rDeltaPeak

\* C12: an update under "active radiants only" that finds no window sets the
\* status to INACTIVE and the activity to the empty one, and leaves the
\* radiant and the active meteors as they were: no meteor is aged, removed
\* or spawned.
C12_DisabledTickKeepsFrame ==
    [][(/\ Running'
        /\ m_status # INVALID
        /\ activeRadiantOnly'
        /\ m_status' = INACTIVE) =>
           /\ m_activity' = EmptyActivity
           /\ m_radiantAlpha' = m_radiantAlpha
           /\ m_radiantDelta' = m_radiantDelta
           /\ m_activeMeteors' = m_activeMeteors
           /\ allocated' = allocated
           /\ ~aging'.ran
           /\ draws' = 0]_vars

\* such an update on a shower with a meteor alive and a drifted radiant
C12_Witness ==
    /\ Running
    /\ ticked
    /\ activeRadiantOnly
    /\ m_status = INACTIVE
    /\ m_activeMeteors # <<>>
    /\ ~RadiantAtPeak

\* C13 as claimed: after an update that leaves a loaded shower INACTIVE the
\* radiant is at its peak position.
C13_Original ==
    (Running /\ ticked /\ m_status = INACTIVE) => RadiantAtPeak

\* C13: after an update that leaves a loaded shower INACTIVE and enabled
\* ("active radiants only" is off), the radiant is at its peak position.
C13_InactiveEnabledAtPeak ==
    (Running /\ ticked /\ m_status = INACTIVE /\ ~activeRadiantOnly) =>
        RadiantAtPeak

\* such an update on a shower whose radiant drifts, with a meteor left from
\* an active night
C13_Witness ==
    /\ Running
    /\ ticked
    /\ m_status = INACTIVE
    /\ ~activeRadiantOnly
    /\ aging.ran
    /\ m_driftAlpha # 0
    /\ allocated > 0
    /\ RadiantAtPeak

\* the meteors an update step adds to the active collection
Added == meteorIds(m_activeMeteors') \ meteorIds(m_activeMeteors)

\* C14: an update while the clock does not run in real time adds no meteor:
\* the collection after it is a subset of the collection before it, no
\* MeteorObj is created and no draw is made; the aging step still runs.
C14_NoSpawnUnlessRealTime ==
    [][(Running' /\ ~realTimeSpeed') =>
           /\ Added = {}
           /\ allocated' = allocated
           /\ draws' = 0
           /\ ~zhrCalled'
           /\ (aging'.ran => m_activeMeteors' = aging'.after)]_vars

\* such an update in which one of two meteors expired and was removed
C14_Witness ==
    /\ Running
    /\ ticked
    /\ ~realTimeSpeed
    /\ deltaTime > 0
    /\ aging.ran
    /\ Cardinality(DOMAIN aging.calls) = 2
    /\ Cardinality(aging.alive) = 1
    /\ Len(m_activeMeteors) = 1

\* x rounded to the nearest integer, halves upwards, for x = num / den >= 0
Nearest(num, den) ==
    CHOOSE n \in 0..(num + 1) : den * (2 * n - 1) <= 2 * num /\ 2 * num < den * (2 * n + 1)

\* max(1, round(expectedRate * dt / 3600)) of the latest update
MaxThisFrame ==
    IF Nearest(currentZHR * deltaTime, SecondsPerHour) < 1 THEN 1
    ELSE Nearest(currentZHR * deltaTime, SecondsPerHour)

\* the latest update reached the spawning step at 0.3 meteors per frame
ThreeTenths ==
    /\ zhrCalled
    /\ currentZHR >= 1
    /\ 10 * currentZHR * deltaTime = 3 * SecondsPerHour

\* C15: an update adds at most maxThisFrame = max(1, round(rate * dt / 3600))
\* meteors and, when it reaches the spawning step, makes exactly maxThisFrame
\* draws (none otherwise); at 0.3 meteors per frame that is one draw and at
\* most one meteor.
C15_AtMostMaxThisFrame ==
    [][Running' =>
          /\ Cardinality(Added) <= draws'
          /\ aging'.ran => Len(m_activeMeteors') <= Len(aging'.after) + draws'
          /\ IF zhrCalled' /\ currentZHR' >= 1
             THEN draws' = MaxThisFrame'
             ELSE draws' = 0
          /\ ThreeTenths' => (draws' = 1 /\ Cardinality(Added) <= 1)]_vars

\* an update at 0.3 meteors per frame whose one draw spawned a meteor, with
\* room for more
C15_Witness ==
    /\ Running
    /\ ThreeTenths
    /\ draws = 1
    /\ Len(m_activeMeteors) = Len(aging.after) + 1
    /\ allocated < MaxMeteors

\* C16: the aging step calls MeteorObj::update exactly once for every
\* meteor that is in the collection when it starts, and leaves exactly the
\* meteors whose update returned true, in their order.
C16_AgingVisitsEachOnce ==
    (Running /\ aging.ran) =>
        /\ \A m \in DOMAIN aging.calls : aging.calls[m] = 1
        /\ aging.alive \subseteq DOMAIN aging.calls
        /\ meteorIds(aging.after) = aging.alive
        /\ Len(aging.after) = Cardinality(aging.alive)
        /\ \A i, j \in 1..Len(aging.after) :
              i < j => aging.after[i] < aging.after[j]

\* an aging step in which the first of two meteors expired
C16_Witness ==
    /\ Running
    /\ aging.ran
    /\ DOMAIN aging.calls = {1, 2}
    /\ aging.alive = {2}
    /\ aging.after = <<2>>

\* month and day of two dates agree (0 and 0 for a null date)
SameDay(a, b) == QMonth(a) = QMonth(b) /\ QDay(a) = QDay(b)

\* a is the generic window g laid over the year of the date: g's rate and
\* its days of the year, the start in the date's year or the one before
GenericProjection(a, g, date) ==
    /\ a.zhr = g.zhr
    /\ a.variable = g.variable
    /\ SameDay(a.start, g.start)
    /\ SameDay(a.finish, g.finish)
    /\ SameDay(a.peak, g.peak)
    /\ QYear(a.start) \in {QYear(date), QYear(date) - 1}
    /\ QYear(a.finish) \in {QYear(a.start), QYear(a.start) + 1}
    /\ a.year = QYear(a.start)

\* C17: after an update of a loaded shower the current activity agrees
\* with the status: ACTIVE_CONFIRMED, it is the first dated window in catalog
\* order that holds the date; ACTIVE_GENERIC, it is the generic window laid
\* over the date's year and start <= date <= finish; INACTIVE, it is the
\* empty window.
C17_ActivityAgreesWithStatus ==
    (Running /\ ticked /\ m_status # INVALID) =>
        /\ m_status = ACTIVE_CONFIRMED =>
              \E i \in 2..Len(m_activities) :
                 /\ m_activity = m_activities[i]
                 /\ Holds(TickDate, m_activities[i].start, m_activities[i].finish)
                 /\ \A j \in 2..(i - 1) :
                       ~Holds(TickDate, m_activities[j].start, m_activities[j].finish)
        /\ m_status = ACTIVE_GENERIC =>
              /\ GenericProjection(m_activity, m_activities[1], TickDate)
              /\ Holds(TickDate, m_activity.start, m_activity.finish)
        /\ m_status = INACTIVE => m_activity = EmptyActivity

\* the three dates of a window are set and in the order start, peak, finish
InOrder(a) ==
    /\ isValid(a.start)
    /\ isValid(a.peak)
    /\ isValid(a.finish)
    /\ a.start <= a.peak
    /\ a.peak <= a.finish

C19_InactiveNeverSpawns ==
    [][(Running' /\ m_status' = INACTIVE) =>
           /\ Added = {}
           /\ allocated' = allocated
           /\ draws' = 0
           /\ zhrCalled' => currentZHR' < 1]_vars

\* an INACTIVE update, enabled, in real time over a long frame
C19_Witness ==
    /\ Running
    /\ ticked
    /\ m_status = INACTIVE
    /\ ~activeRadiantOnly
    /\ realTimeSpeed
    /\ deltaTime > 0
    /\ zhrCalled
    /\ aging.ran

\* C20: construction from a record with the four mandatory keys never reads
\* past the end of the activity list and leaves the shower INVALID or
\* UNDEFINED; a shower that is not INVALID has an activity at index 0, and
\* no update reads index 0 of an empty list.
C20_GenericIndexInBounds ==
    /\ Running
    /\ m_status # INVALID => m_activities # <<>>
    /\ (catalog.keys = MandatoryKeys /\ ~ticked) => m_status \in {INVALID, UNDEFINED}

====
